---- MODULE Spec2Model ----
(***************************************************************************)
(* Model of rosalinux/autoupdater: updater.py (the per-package update      *)
(* workflow and the batch loop of main / handle_file) and helpers/helper.py*)
(* (update_version_in_spec_file, run_spectool_in_directory, mock_commit).  *)
(*                                                                         *)
(* Text is modelled as a sequence of characters.  The nine characters of   *)
(* the key "Version:" are one token K; every other token is one character. *)
(* A version string is a token holding no whitespace.                      *)
(***************************************************************************)
EXTENDS Integers, Sequences, FiniteSets, TLC

\* ---------------------------------------------------------------- bounds
\* Number of packages in the batch (--package a b ... or the lines of --file).
MaxPkgs == 2
\* Distinct version strings "1" < "2" < ... in rpm version order.
MaxVersion == 2
\* Longest spec file the mutator is applied to, in tokens.
MaxLen == 5
\* Calls of update_version_in_spec_file on the same file in the mutator runs.
MaxApply == 2

\* ------------------------------------------------------------- characters
K == "Version:"
SP == " "
NL == "\n"

Versions == {ToString(i) : i \in 1..MaxVersion}
Rank(v) == CHOOSE i \in 1..MaxVersion : ToString(i) = v

\* Characters a spec file is made of.
Chars == {K, SP, NL} \cup Versions

\* Sequences over S of length 0..n.
SeqUpTo(S, n) == UNION {[1..k -> S] : k \in 0..n}

\* ------------------------------------------- the regex of the spec mutator
\* r"^(Version:\s*)(.+)$" with re.MULTILINE
\* \s matches blank and newline; . matches everything but the newline.
IsWs(c) == c \in {SP, NL}
IsDot(c) == c # NL
\* ^ under re.MULTILINE: at the start of the text and after each newline.
AtLineStart(s, i) == i = 1 \/ s[i - 1] = NL

\* First index >= j holding no whitespace (Len(s)+1 when there is none):
\* where the greedy \s* started at j stops.
RECURSIVE WsEnd(_, _)
WsEnd(s, j) == IF j > Len(s) \/ ~IsWs(s[j]) THEN j ELSE WsEnd(s, j + 1)

\* First index >= p holding a newline (Len(s)+1 when there is none): where
\* the greedy .+ started at p stops, and where $ then matches.
RECURSIVE LineEnd(_, _)
LineEnd(s, p) == IF p > Len(s) \/ s[p] = NL THEN p ELSE LineEnd(s, p + 1)

\* Where group 2 can start for a match whose key is at i: after the key and
\* any part of the whitespace run, on a character that . matches.
Group2Starts(s, i) ==
    {p \in (i + 1)..WsEnd(s, i + 1) : p <= Len(s) /\ IsDot(s[p])}

\* The pattern matches at i.
MatchesAt(s, i) ==
    /\ i <= Len(s)
    /\ s[i] = K
    /\ AtLineStart(s, i)
    /\ Group2Starts(s, i) # {}

\* \s* is greedy and gives whitespace back only when .+ cannot match: group 2
\* starts at the last possible place.
Group2Start(s, i) ==
    CHOOSE p \in Group2Starts(s, i) : \A q \in Group2Starts(s, i) : q <= p

\* lambda match: f"{match.group(1)}{new_version}"
ReplacementSpaced(group1, new_version) == group1 \o <<SP>> \o new_version
Replacement(group1, new_version) == group1 \o new_version

\* re.sub(pattern, lambda, spec_contents, flags=re.MULTILINE) from index i on:
\* no count is given, so every non-overlapping match is replaced, left to
\* right.
RECURSIVE ReSubFrom(_, _, _)
ReSubFrom(s, new_version, i) ==
    IF i > Len(s) THEN <<>>
    ELSE IF MatchesAt(s, i)
         THEN LET p == Group2Start(s, i)
              IN  Replacement(SubSeq(s, i, p - 1), new_version)
                    \o ReSubFrom(s, new_version, LineEnd(s, p))
         ELSE <<s[i]>> \o ReSubFrom(s, new_version, i + 1)

ReSub(s, new_version) == ReSubFrom(s, new_version, 1)

\* ------------------------------------------------------------------ state
VARIABLES
    mode,              \* "package" (main loops over --package) or "file" (handle_file)
    log_file,          \* TRUE when --log is given
    idx,               \* position in the batch of the package handled last
    pc,                \* the statement of handle_update / main about to run
    current_version,   \* local of handle_update
    upstream_version,  \* local of handle_update
    spec_exists,       \* the working copy holds <package>.spec
    spec_contents,     \* contents of that spec file
    orig_contents,     \* contents before the last update_version_in_spec_file
    new_version,       \* argument of the last update_version_in_spec_file
    applied,           \* calls of update_version_in_spec_file on this file
    wrote,             \* the last call reached file.write
    scratch,           \* package whose configuration $TMP/.nvchecker.toml holds
    log,               \* lines of the log file
    events,            \* external effects of the current handle_update, in order
    outcome,           \* how the last handle_update ended
    file_error,        \* handle_file's except clause ran
    nv_input,          \* package whose configuration nvchecker was run on in
                       \* the current check_update (0: nvchecker was not run)
    cu_in,             \* arguments and environment of a check_update call
    cu_out,            \* what that call did and returned
    cwd,               \* the process's current working directory
    cwd_before,        \* cwd when git_operations was last called
    runs,              \* runs of the scripts on the log file so far
    truncated          \* the current run removed lines from the log file

vars == <<mode, log_file, idx, pc, current_version, upstream_version,
          spec_exists, spec_contents, orig_contents, new_version, applied,
          wrote, scratch, log, events, outcome, file_error, nv_input,
          cu_in, cu_out, cwd, cwd_before, runs, truncated>>

cuVars == <<cu_in, cu_out>>
dirVars == <<cwd, cwd_before>>
runVars == <<runs, truncated>>

mutatorVars == <<spec_contents, orig_contents, new_version, applied, wrote>>

UNBOUND == "unbound"    \* a local that was never assigned
NoCall == [called |-> FALSE]    \* check_update was not called
None == "None"
NoArg == "-"

\* -------------------------------------------------- update_version_in_spec_file
\* helper.py 104-125: read, re.sub, compare, write only when changed.
update_version_in_spec_file(version) ==
    LET updated_spec_contents == ReSub(spec_contents, <<version>>)
    IN  /\ new_version' = version
        /\ orig_contents' = spec_contents
        /\ applied' = applied + 1
        /\ IF spec_contents = updated_spec_contents
           THEN /\ wrote' = FALSE
                /\ spec_contents' = spec_contents
           ELSE /\ wrote' = TRUE
                /\ spec_contents' = updated_spec_contents

\* ------------------------------------------------------------ environment
Raise == "raise"

\* Exit statuses of /usr/bin/rpmdev-vercmp, as compare_versions reads them.
EXIT_SAME == 0
EXIT_OLDER == 11     \* the first argument (the packaged version) is newer
EXIT_NEWER == 12     \* the second argument (the upstream version) is newer
EXIT_ERROR == 1      \* any status the code does not classify

\* What rpmdev-vercmp answers for two versions when it works.
Vercmp(a, b) ==
    IF Rank(a) = Rank(b) THEN EXIT_SAME
    ELSE IF Rank(a) > Rank(b) THEN EXIT_OLDER
    ELSE EXIT_NEWER

\* What subprocess.run can produce: the tool's answer, a status outside the
\* three documented ones, or an exception (the binary is missing).
VercmpOutcomes(a, b) ==
    { [raised |-> FALSE, returncode |-> Vercmp(a, b)],
      [raised |-> FALSE, returncode |-> EXIT_ERROR],
      [raised |-> TRUE, returncode |-> EXIT_ERROR] }

\* How the spec names the comparator's result.
Classify(result) ==
    IF result.raised THEN "Error"
    ELSE IF result.returncode = EXIT_NEWER THEN "Newer"
    ELSE IF result.returncode = EXIT_OLDER THEN "Older"
    ELSE IF result.returncode = EXIT_SAME THEN "Same"
    ELSE "Error"

\* updater.py 36-59: True only for exit status 12.
compare_versions_not_same(result) ==
    ~result.raised /\ result.returncode \in {EXIT_NEWER, EXIT_OLDER}
compare_versions_not_classified(result) ==
    result.raised \/ result.returncode \notin {EXIT_OLDER, EXIT_SAME}
compare_versions_not_older(result) ==
    ~result.raised /\ result.returncode \in {EXIT_NEWER, EXIT_SAME}
compare_versions(result) ==
    IF result.raised THEN FALSE
    ELSE IF result.returncode = EXIT_NEWER THEN TRUE
    ELSE IF result.returncode = EXIT_OLDER THEN FALSE
    ELSE IF result.returncode = EXIT_SAME THEN FALSE
    ELSE FALSE

\* Lines nvchecker --logger json can print: a record naming an entry of the
\* configuration, with or without a "version" key, or text that is no JSON.
MaxLines == 2
NoKey == "nokey"
Garbage == [name |-> 0, version |-> "garbage"]
NvLines ==
    {Garbage} \cup [name : 1..MaxPkgs, version : Versions \cup {NoKey}]
NvOutputs == SeqUpTo(NvLines, MaxLines)

\* updater.py 107-119: the version of the first line that parses and has a
\* "version" key; None when there is none.
RECURSIVE ParseNvchecker(_, _)
ParseNvchecker(out, i) ==
    IF i > Len(out) THEN None
    ELSE IF out[i] # Garbage /\ out[i].version # NoKey THEN out[i].version
    ELSE ParseNvchecker(out, i + 1)

check_update_on_stale_scratch(probe, get_ok, nv_ok, out) ==
    [ downloaded |-> probe = "200" /\ get_ok,
      ran |-> probe # Raise,
      result |-> IF probe = Raise THEN Raise
                 ELSE IF ~nv_ok THEN Raise
                 ELSE ParseNvchecker(out, 1) ]

check_update_ignoring_probe(probe, get_ok, nv_ok, out) ==
    [ downloaded |-> probe # Raise /\ get_ok,
      ran |-> probe # Raise /\ get_ok,
      result |-> IF probe = Raise THEN Raise
                 ELSE IF ~get_ok THEN Raise
                 ELSE IF ~nv_ok THEN Raise
                 ELSE ParseNvchecker(out, 1) ]

\* updater.py 74-123.  probe: requests.head answers 200, another status, or
\* raises; get_ok: requests.get answers 200; nv_ok: nvchecker exits 0.
check_update(probe, get_ok, nv_ok, out) ==
    [ downloaded |-> probe = "200" /\ get_ok,
      ran |-> probe = "200" /\ get_ok,
      result |-> IF probe = Raise THEN Raise
                 ELSE IF probe # "200" THEN None
                 ELSE IF ~get_ok THEN Raise
                 ELSE IF ~nv_ok THEN Raise
                 ELSE ParseNvchecker(out, 1) ]

\* Every answer of check_update, over the answers of the network and of
\* nvchecker.
CheckUpdateResults ==
    {check_update(probe, get_ok, nv_ok, out) :
       probe \in {"200", "404", Raise}, get_ok \in BOOLEAN,
       nv_ok \in BOOLEAN, out \in NvOutputs}

\* Spec files a working copy can hold after git pull / git clone: a version
\* line with a value, two version lines (a subpackage with its own
\* version), a version key with its value missing, no line the pattern
\* matches.
SpecFiles ==
    {<<K, SP, v, NL>> : v \in Versions}
      \cup {<<K, SP, ToString(1), NL, K, SP, ToString(1), NL>>,
            <<K, NL, ToString(1), NL>>,
            <<ToString(1), NL>>}

Event(op, ok, arg) == [pkg |-> idx, op |-> op, ok |-> ok, arg |-> arg]
LogLine(kind, from, to) == [pkg |-> idx, kind |-> kind, from |-> from, to |-> to]

\* updater.py 11-23
log_message(line) == IF log_file THEN Append(log, line) ELSE log

\* check=True and the re-raising except clauses: a failed step raises into
\* handle_update's except clause, a successful one falls through.
AfterStageIgnoringFailure(ok, next) == next
AfterStage(ok, next) == IF ok THEN next ELSE "except"

\* The statement order of handle_update 232-241 and mock_commit 22-82.
NextStageNoMock(stage) ==
    CASE stage = "update_spec" -> "spectool"
      [] stage = "spectool" -> "put"
      [] stage = "mock" -> "put"
      [] stage = "put" -> "commit"
      [] stage = "commit" -> "push"
      [] stage = "push" -> "build"
      [] stage = "build" -> "log_ok"
NextStageBuildFirst(stage) ==
    CASE stage = "update_spec" -> "spectool"
      [] stage = "spectool" -> "mock"
      [] stage = "mock" -> "put"
      [] stage = "put" -> "commit"
      [] stage = "commit" -> "build"
      [] stage = "build" -> "push"
      [] stage = "push" -> "log_ok"
NextStage(stage) ==
    CASE stage = "update_spec" -> "spectool"
      [] stage = "spectool" -> "mock"
      [] stage = "mock" -> "put"
      [] stage = "put" -> "commit"
      [] stage = "commit" -> "push"
      [] stage = "push" -> "build"
      [] stage = "build" -> "log_ok"

\* ---------------------------------------------------------------- actions
\* State after argument parsing, before the first package.
Init ==
    /\ mode \in {"package", "file"}
    /\ log_file \in BOOLEAN
    /\ idx = 0
    /\ pc = "main"
    /\ current_version = UNBOUND
    /\ upstream_version = UNBOUND
    /\ spec_exists = FALSE
    /\ spec_contents = <<>>
    /\ orig_contents = <<>>
    /\ new_version = UNBOUND
    /\ applied = 0
    /\ wrote = FALSE
    /\ scratch = 0
    /\ log = <<>>
    /\ events = <<>>
    /\ outcome = "none"
    /\ file_error = FALSE
    /\ nv_input = 0
    /\ cu_in = NoCall
    /\ cu_out = NoCall
    /\ cwd = "home"
    /\ cwd_before = "home"
    /\ runs = 0
    /\ truncated = FALSE

\* main 274-278 / handle_file 257-258: the loop calls handle_update for the
\* next package; its locals are unbound on entry (updater.py 186-190).
BeginUpdate ==
    /\ pc = "main"
    /\ idx < MaxPkgs
    /\ idx' = idx + 1
    /\ pc' = "pull"
    /\ current_version' = UNBOUND
    /\ upstream_version' = UNBOUND
    /\ spec_exists' = FALSE
    /\ spec_contents' = <<>>
    /\ orig_contents' = <<>>
    /\ new_version' = UNBOUND
    /\ applied' = 0
    /\ wrote' = FALSE
    /\ events' = <<>>
    /\ outcome' = "running"
    /\ UNCHANGED <<mode, log_file, scratch, log, file_error>>
    /\ nv_input' = 0
    /\ UNCHANGED <<cuVars, dirVars, runVars>>

\* updater.py 192-211: git pull when the directory exists, git clone
\* otherwise; either fills the working copy from the remote.
GitPullOrClone ==
    /\ pc = "pull"
    /\ \E exists \in BOOLEAN, ok \in BOOLEAN :
         /\ events' = Append(events,
                Event(IF exists THEN "pull" ELSE "clone", ok, NoArg))
         /\ pc' = AfterStage(ok, "find_spec")
         /\ IF ok
            THEN \/ /\ spec_exists' = TRUE
                    /\ spec_contents' \in SpecFiles
                 \/ /\ spec_exists' = FALSE
                    /\ spec_contents' = <<>>
            ELSE UNCHANGED <<spec_exists, spec_contents>>
    /\ UNCHANGED <<mode, log_file, idx, current_version, upstream_version,
                   orig_contents, new_version, applied, wrote, scratch, log,
                   outcome, file_error>>
    /\ UNCHANGED <<nv_input, cuVars, dirVars, runVars>>

\* updater.py 214-216
FindSpec ==
    /\ pc = "find_spec"
    /\ events' = Append(events, Event("find_spec", spec_exists, NoArg))
    /\ pc' = AfterStage(spec_exists, "repo_version")
    /\ UNCHANGED <<mode, log_file, idx, current_version, upstream_version,
                   spec_exists, spec_contents, orig_contents, new_version,
                   applied, wrote, scratch, log, outcome, file_error>>
    /\ UNCHANGED <<nv_input, cuVars, dirVars, runVars>>

\* updater.py 219, 151-167: the rpm library expands %{version} (macros make
\* it any version) or raises.
RepoVersion ==
    /\ pc = "repo_version"
    /\ \E r \in Versions \cup {Raise} :
         /\ events' = Append(events, Event("repo_version", r # Raise, r))
         /\ pc' = AfterStage(r # Raise, "check_update")
         /\ current_version' = IF r # Raise THEN r ELSE current_version
    /\ UNCHANGED <<mode, log_file, idx, upstream_version, spec_exists,
                   spec_contents, orig_contents, new_version, applied, wrote,
                   scratch, log, outcome, file_error>>
    /\ UNCHANGED <<nv_input, cuVars, dirVars, runVars>>

\* updater.py 222, 62-123: check_update on whatever the network and
\* nvchecker answer.
CheckUpdate ==
    /\ pc = "check_update"
    /\ \E r \in CheckUpdateResults :
         LET dl == IF r.downloaded
                   THEN <<Event("download", TRUE, NoArg)>> ELSE <<>>
         IN  /\ events' = events \o dl
                   \o <<Event("check_update", r.result # Raise, r.result)>>
             /\ scratch' = IF r.downloaded THEN idx ELSE scratch
             /\ nv_input' = IF r.ran THEN scratch' ELSE 0
             /\ upstream_version' =
                   IF r.result # Raise THEN r.result ELSE upstream_version
             /\ pc' = AfterStage(r.result # Raise, "decide")
    /\ UNCHANGED <<mode, log_file, idx, current_version, spec_exists,
                   spec_contents, orig_contents, new_version, applied, wrote,
                   log, outcome, file_error>>
    /\ UNCHANGED <<cuVars, dirVars, runVars>>

NoUpdateProceeds ==
    /\ pc = "decide"
    /\ upstream_version = None
    /\ pc' = "update_spec"
    /\ UNCHANGED <<mode, log_file, idx, current_version, upstream_version,
                   spec_exists, spec_contents, orig_contents, new_version,
                   applied, wrote, scratch, log, events, outcome, file_error>>
    /\ UNCHANGED <<nv_input, cuVars, dirVars, runVars>>

\* updater.py 223-225
NoUpdate ==
    /\ pc = "decide"
    /\ upstream_version = None
    /\ log' = log_message(LogLine("no_update", current_version, NoArg))
    /\ outcome' = "no_update"
    /\ pc' = "main"
    /\ UNCHANGED <<mode, log_file, idx, current_version, upstream_version,
                   spec_exists, spec_contents, orig_contents, new_version,
                   applied, wrote, scratch, events, file_error>>
    /\ UNCHANGED <<nv_input, cuVars, dirVars, runVars>>

\* updater.py 228-229, 242-243
Compare ==
    /\ pc = "decide"
    /\ upstream_version # None
    /\ \E result \in VercmpOutcomes(current_version, upstream_version) :
         /\ events' = Append(events, Event("compare", TRUE, Classify(result)))
         /\ IF compare_versions(result)
            THEN /\ pc' = "update_spec"
                 /\ UNCHANGED <<log, outcome>>
            ELSE /\ log' = log_message(LogLine("up_to_date", NoArg, NoArg))
                 /\ outcome' = "up_to_date"
                 /\ pc' = "main"
    /\ UNCHANGED <<mode, log_file, idx, current_version, upstream_version,
                   spec_exists, spec_contents, orig_contents, new_version,
                   applied, wrote, scratch, file_error>>
    /\ UNCHANGED <<nv_input, cuVars, dirVars, runVars>>

\* updater.py 232: the mutator runs, or open() raises.
UpdateSpec ==
    /\ pc = "update_spec"
    /\ \E ok \in BOOLEAN :
         /\ events' = Append(events, Event("update_spec", ok, upstream_version))
         /\ pc' = AfterStage(ok, NextStage("update_spec"))
         /\ IF ok THEN update_version_in_spec_file(upstream_version)
                  ELSE UNCHANGED mutatorVars
    /\ UNCHANGED <<mode, log_file, idx, current_version, upstream_version,
                   spec_exists, scratch, log, outcome, file_error>>
    /\ UNCHANGED <<nv_input, cuVars, dirVars, runVars>>

\* One spawned tool of the publishing sequence, run with check=True.
RunStage(stage, arg) ==
    /\ pc = stage
    /\ \E ok \in BOOLEAN :
         /\ events' = Append(events, Event(stage, ok, arg))
         /\ pc' = AfterStage(ok, NextStage(stage))
    /\ UNCHANGED <<mode, log_file, idx, current_version, upstream_version,
                   spec_exists, spec_contents, orig_contents, new_version,
                   applied, wrote, scratch, log, outcome, file_error>>
    /\ UNCHANGED <<nv_input, cuVars, dirVars, runVars>>

\* updater.py 235, helper.py 143-173: spectool -g
Spectool == RunStage("spectool", NoArg)
\* helper.py 22-38: abf mock -v, then .abf.yml is removed
AbfMock == RunStage("mock", NoArg)
\* helper.py 40-49: abf put
AbfPut == RunStage("put", NoArg)
\* helper.py 50-59: git commit -am "autoupdate version to <version>"
GitCommit == RunStage("commit", upstream_version)
\* helper.py 61-70: git push
GitPush == RunStage("push", NoArg)
\* helper.py 72-82: abf build
AbfBuild == RunStage("build", NoArg)

\* updater.py 241
LogSuccess ==
    /\ pc = "log_ok"
    /\ log' = log_message(LogLine("upgraded", current_version, upstream_version))
    /\ outcome' = "upgraded"
    /\ pc' = "main"
    /\ UNCHANGED <<mode, log_file, idx, current_version, upstream_version,
                   spec_exists, spec_contents, orig_contents, new_version,
                   applied, wrote, scratch, events, file_error>>
    /\ UNCHANGED <<nv_input, cuVars, dirVars, runVars>>

\* updater.py 244-248.  With a log file the handler formats current_version
\* and upstream_version: when either was never assigned the f-string raises
\* UnboundLocalError out of handle_update.  main's --package loop has no
\* handler (the process dies); handle_file's except clause (259-260) ends
\* its loop.
Except ==
    /\ pc = "except"
    /\ IF log_file /\ UNBOUND \in {current_version, upstream_version}
       THEN /\ outcome' = "raised"
            /\ log' = log
            /\ IF mode = "package"
               THEN /\ pc' = "crashed"
                    /\ file_error' = file_error
               ELSE /\ pc' = "done"
                    /\ file_error' = TRUE
       ELSE /\ log' = log_message(
                        LogLine("failed", current_version, upstream_version))
            /\ outcome' = "failed"
            /\ pc' = "main"
            /\ file_error' = file_error
    /\ UNCHANGED <<mode, log_file, idx, current_version, upstream_version,
                   spec_exists, spec_contents, orig_contents, new_version,
                   applied, wrote, scratch, events>>
    /\ UNCHANGED <<nv_input, cuVars, dirVars, runVars>>

\* The loop of main / handle_file ends after the last package.
Finish ==
    /\ pc = "main"
    /\ idx = MaxPkgs
    /\ pc' = "done"
    /\ UNCHANGED <<mode, log_file, idx, current_version, upstream_version,
                   spec_exists, spec_contents, orig_contents, new_version,
                   applied, wrote, scratch, log, events, outcome, file_error>>
    /\ UNCHANGED <<nv_input, cuVars, dirVars, runVars>>

Next ==
    \/ BeginUpdate
    \/ GitPullOrClone
    \/ FindSpec
    \/ RepoVersion
    \/ CheckUpdate
    \/ NoUpdate
    \/ Compare
    \/ UpdateSpec
    \/ Spectool
    \/ AbfMock
    \/ AbfPut
    \/ GitCommit
    \/ GitPush
    \/ AbfBuild
    \/ LogSuccess
    \/ Except
    \/ Finish

Spec == Init /\ [][Next]_vars

\* ------------------------------------------- the spec mutator on its own
\* Every spec file of at most MaxLen tokens and every target version;
\* update_version_in_spec_file is applied to the file MaxApply times.
MutatorInit ==
    /\ mode = "package"
    /\ log_file = FALSE
    /\ idx = 0
    /\ pc = "mutator"
    /\ current_version = UNBOUND
    /\ upstream_version \in Versions
    /\ spec_exists = TRUE
    /\ spec_contents \in SeqUpTo(Chars, MaxLen)
    /\ orig_contents = <<>>
    /\ new_version = UNBOUND
    /\ applied = 0
    /\ wrote = FALSE
    /\ scratch = 0
    /\ log = <<>>
    /\ events = <<>>
    /\ outcome = "none"
    /\ file_error = FALSE
    /\ nv_input = 0
    /\ cu_in = NoCall
    /\ cu_out = NoCall
    /\ cwd = "home"
    /\ cwd_before = "home"
    /\ runs = 0
    /\ truncated = FALSE

MutatorApply ==
    /\ pc = "mutator"
    /\ applied < MaxApply
    /\ update_version_in_spec_file(upstream_version)
    /\ UNCHANGED <<mode, log_file, idx, pc, current_version, upstream_version,
                   spec_exists, scratch, log, events, outcome, file_error>>
    /\ UNCHANGED <<nv_input, cuVars, dirVars, runVars>>

MutatorNext == MutatorApply

MutatorSpec == MutatorInit /\ [][MutatorNext]_vars

\* ----------------------------------------------------- reading the history
EventsOf(op) ==
    LET Is(e) == e.op = op IN SelectSeq(events, Is)

LinesOf(p) ==
    LET Is(l) == l.pkg = p IN SelectSeq(log, Is)

OpsOf(evs) == [i \in 1..Len(evs) |-> evs[i].op]

\* The first place, from the top, where the version-field pattern matches.
HasMatch(s) == \E i \in 1..Len(s) : MatchesAt(s, i)
FirstMatch(s) ==
    CHOOSE i \in 1..Len(s) :
      MatchesAt(s, i) /\ \A j \in 1..(i - 1) : ~MatchesAt(s, j)

\* Stages that change the spec file, the sources or the remote.
UpdateStages ==
    {"update_spec", "spectool", "mock", "put", "commit", "push", "build"}

\* handle_update has returned or raised for the package at idx.
Returned == idx > 0 /\ pc \in {"main", "done", "crashed"}

\* ------------------------------------------------------------------- C1
\* C1: in handle_update, when the comparator classifies the upstream version
\* b as Newer, update_version_in_spec_file is invoked exactly once, for the
\* package at hand and with b; when it classifies the pair as Same or Older
\* (and before any comparison) the mutator is not invoked at all.
C1_MutatorOnceIffNewer ==
    LET calls == EventsOf("update_spec")
        cmp == EventsOf("compare")
    IN  /\ Len(cmp) <= 1
        /\ Len(cmp) = 0 => calls = <<>>
        /\ \A i \in 1..Len(cmp) :
             /\ cmp[i].arg \in {"Same", "Older"} =>
                  calls = <<>> /\ pc # "update_spec"
             /\ cmp[i].arg = "Newer" =>
                  IF pc = "update_spec" THEN calls = <<>>
                  ELSE /\ Len(calls) = 1
                       /\ calls[1].pkg = idx
                       /\ calls[1].arg = upstream_version
                       /\ new_version \in {upstream_version, UNBOUND}

\* Newer was reported and the mutator has run, once, with the upstream version.
C1_Witness ==
    /\ Len(EventsOf("compare")) = 1
    /\ EventsOf("compare")[1].arg = "Newer"
    /\ Len(EventsOf("update_spec")) = 1
    /\ new_version = upstream_version
    /\ pc = "spectool"

\* ------------------------------------------------------------------- C2
\* C2: the comparator fails safe.  An update is started only after exit
\* status 12; after any other status, and after rpmdev-vercmp raised, the
\* package is reported as needing no update and no spec mutation, source
\* fetch, commit, push or build trigger follows.
C2_ComparatorFailsSafe ==
    LET cmp == EventsOf("compare")
    IN  /\ (pc \in UpdateStages \cup {"log_ok"}
              \/ \E i \in 1..Len(events) : events[i].op \in UpdateStages)
             => Len(cmp) = 1 /\ cmp[1].arg = "Newer"
        /\ \A i \in 1..Len(cmp) :
             cmp[i].arg # "Newer" =>
               /\ outcome = "up_to_date"
               /\ pc \in {"main", "done"}
               /\ applied = 0
               /\ events[Len(events)].op = "compare"

\* The comparison failed (unclassified status or exception) and the package
\* was reported as up to date.
C2_Witness ==
    /\ Len(EventsOf("compare")) = 1
    /\ EventsOf("compare")[1].arg = "Error"
    /\ outcome = "up_to_date"
    /\ pc = "main"

\* ------------------------------------------------------------------- C3
\* C3: no error is fatal to the batch: whatever stage fails for a package,
\* handle_update handles the error itself (nothing is raised to the loop)
\* and the loop goes on to every later package of the batch.
C3_BatchSurvivesEveryFailure ==
    /\ outcome # "raised"
    /\ pc # "crashed"
    /\ pc = "done" => idx = MaxPkgs

\* ------------------------------------------------------------------- C4
\* C4: the stages of one package run in a fixed order, each at most once,
\* and a failed stage is the last one: nothing is retried and no later
\* stage runs after a failure.
StageOrder ==
    <<"pull", "find_spec", "repo_version", "download", "check_update",
      "compare", "update_spec", "spectool", "mock", "put", "commit", "push",
      "build">>

StageNo(op) ==
    IF op = "clone" THEN 1
    ELSE CHOOSE n \in 1..Len(StageOrder) : StageOrder[n] = op

C4_FirstFailureHalts ==
    /\ \A i \in 1..Len(events) :
         ~events[i].ok =>
           /\ i = Len(events)
           /\ pc \in {"except", "main", "done", "crashed"}
    /\ \A i \in 1..Len(events) : \A j \in 1..Len(events) :
         i < j => StageNo(events[i].op) < StageNo(events[j].op)
    /\ pc \in UpdateStages =>
         /\ events # <<>>
         /\ events[Len(events)].ok
         /\ StageNo(events[Len(events)].op) + 1 = StageNo(pc)

\* git commit failed: it is the last stage that ran and the package failed.
C4_Witness ==
    /\ events # <<>>
    /\ events[Len(events)].op = "commit"
    /\ ~events[Len(events)].ok
    /\ outcome = "failed"
    /\ pc = "main"

\* ------------------------------------------------------------------- C5
\* C5: when the upstream version is Newer and every stage succeeds, the
\* stages occur in the order pull/clone, version extraction, upstream check,
\* comparison, spec mutation with the upstream version, source fetch,
\* commit naming the upstream version, push, build trigger; the log line
\* "<pkg> upgraded [<current>] to [<upstream>]" is written once, and only
\* after the build trigger succeeded.  The version line the pattern matches
\* then holds the upstream version.
SuccessOrder ==
    <<"find_spec", "repo_version", "download", "check_update", "compare",
      "update_spec", "spectool", "mock", "put", "commit", "push", "build">>

UpgradedLines ==
    LET Is(l) == l.pkg = idx /\ l.kind = "upgraded" IN SelectSeq(log, Is)

From(s, i) == SubSeq(s, i, Len(s))

\* The lines of a text (split at newlines).
RECURSIVE SplitLines(_, _)
SplitLines(s, i) ==
    IF i > Len(s) THEN <<<<>>>>
    ELSE LET e == LineEnd(s, i)
         IN  IF e > Len(s) THEN <<SubSeq(s, i, Len(s))>>
             ELSE <<SubSeq(s, i, e - 1)>> \o SplitLines(s, e + 1)

\* Where the blanks that follow the key of a line end.
RECURSIVE BlanksEnd(_, _)
BlanksEnd(line, j) ==
    IF j > Len(line) \/ line[j] # SP THEN j ELSE BlanksEnd(line, j + 1)

\* ------------------------------------------------------------------- C6
\* C6: update_version_in_spec_file rewrites only the first line that matches
\* the version-field pattern: the text after the first match, and with it
\* every later matching line, is left as it was.
C6_OnlyFirstMatchRewritten ==
    (applied = 1 /\ HasMatch(orig_contents)) =>
      LET i == FirstMatch(orig_contents)
          e == LineEnd(orig_contents, Group2Start(orig_contents, i))
          rest == From(orig_contents, e)
      IN  /\ Len(spec_contents) >= Len(rest)
          /\ From(spec_contents, Len(spec_contents) - Len(rest) + 1) = rest

\* ------------------------------------------------------------------- C7
\* C7: the contents before and after update_version_in_spec_file differ in
\* at most one line; that line starts with the key "Version:" and keeps the
\* key, only what follows the key and (some of) its blanks changes.
C7_DiffConfinedToVersionValue ==
    applied = 1 =>
      LET before == SplitLines(orig_contents, 1)
          after == SplitLines(spec_contents, 1)
          diff == {n \in 1..Len(before) : before[n] # after[n]}
      IN  /\ Len(before) = Len(after)
          /\ Cardinality(diff) <= 1
          /\ \A n \in diff :
               /\ before[n] # <<>>
               /\ before[n][1] = K
               /\ \E b \in 1..BlanksEnd(before[n], 2) :
                    after[n] = SubSeq(before[n], 1, b - 1) \o <<new_version>>

\* ------------------------------------------------------------------- C8
\* C8: spec mutation is idempotent: a second update_version_in_spec_file
\* with the same version takes the "no changes" path (nothing is written)
\* and leaves the content of the first application.
C8_SecondApplicationIsNoOp ==
    applied >= 2 => ~wrote /\ spec_contents = orig_contents

\* The mutator ran twice on a file with a version line that now holds the target.
C8_Witness ==
    /\ applied = 2
    /\ HasMatch(spec_contents)
    /\ LET i == FirstMatch(spec_contents)
       IN  From(spec_contents, Group2Start(spec_contents, i)) = <<new_version>>
    /\ Len(spec_contents) = MaxLen

\* ------------------------------------------------------------------- C9
\* C9 as stated: for a package whose current and upstream versions are
\* identical, handle_update reports it up to date and its workflow performs
\* no filesystem mutation and no remote mutation at all.
MutatingOps ==
    {"pull", "clone", "download"} \cup UpdateStages

Compared == Len(EventsOf("compare")) = 1

C9_NoMutationWhenSame ==
    (Compared /\ current_version = upstream_version) =>
      /\ outcome = "up_to_date"
      /\ \A i \in 1..Len(events) :
           ~(events[i].ok /\ events[i].op \in MutatingOps)

\* C9 as amended: for a package whose current and upstream versions are
\* identical, handle_update reports it up to date and never mutates the spec
\* file, fetches sources, commits, pushes or triggers a build; what its
\* workflow does change is the working copy (git pull / git clone run
\* first), the scratch file .nvchecker.toml and, with --log, the log.
C9_SameVersionNoUpdateStage ==
    (Compared /\ current_version = upstream_version) =>
      /\ outcome = "up_to_date"
      /\ pc \in {"main", "done"}
      /\ applied = 0 /\ ~wrote
      /\ \A i \in 1..Len(events) : events[i].op \notin UpdateStages
      /\ \E i \in 1..Len(events) :
           events[i].ok /\ events[i].op \in {"pull", "clone"}
      /\ \E i \in 1..Len(events) : events[i].op = "download"
      /\ scratch = idx
      /\ log_file =>
           LinesOf(idx) = <<[pkg |-> idx, kind |-> "up_to_date",
                             from |-> NoArg, to |-> NoArg]>>

\* Equal versions were compared by a working rpmdev-vercmp.
C9_Witness ==
    /\ Compared
    /\ EventsOf("compare")[1].arg = "Same"
    /\ current_version = upstream_version
    /\ outcome = "up_to_date"
    /\ log_file

\* ------------------------------------------------------------------ C10
\* C10: with a log file, every handle_update that has ended, on whatever
\* path, has appended exactly one line for its package: never none, never
\* two.
C10_OneLogLinePerPackage ==
    log_file =>
      \A p \in 1..MaxPkgs :
        /\ Len(LinesOf(p)) <= 1
        /\ (p < idx \/ (p = idx /\ Returned)) => Len(LinesOf(p)) = 1

\* ------------------------------------------------ check_update on its own
\* Mirrors that can hold a package's .nvchecker.toml: 1 is base_url (the
\* ROSA import host, updater.py 62), 2 is the Arch Linux packaging host
\* (autoadd_toml.py 82).
NumMirrors == 2

CuInput(p, reach, head_raises, get_ok, nv_ok, out) ==
    [called |-> TRUE, pkg |-> p, reach |-> reach, head_raises |-> head_raises,
     get_ok |-> get_ok, nv_ok |-> nv_ok, out |-> out]

\* Every package name, every state of the mirrors and of the network, and,
\* when nvchecker gets to run, everything it can print.
CuInputs ==
    {CuInput(p, reach, hr, g, n, <<>>) :
       p \in 1..MaxPkgs, reach \in [1..NumMirrors -> BOOLEAN],
       hr \in BOOLEAN, g \in BOOLEAN, n \in BOOLEAN}
      \cup
    {CuInput(p, reach, FALSE, TRUE, TRUE, out) :
       p \in 1..MaxPkgs, reach \in [1..NumMirrors -> BOOLEAN],
       out \in NvOutputs}

\* updater.py 74-81: the only URL probed is built from base_url.
Probe(in) ==
    IF in.head_raises THEN Raise
    ELSE IF in.reach[1] THEN "200"
    ELSE "404"

CheckUpdateInit ==
    /\ mode = "package"
    /\ log_file = FALSE
    /\ idx = 0
    /\ pc = "check_update_call"
    /\ current_version = UNBOUND
    /\ upstream_version = UNBOUND
    /\ spec_exists = FALSE
    /\ spec_contents = <<>>
    /\ orig_contents = <<>>
    /\ new_version = UNBOUND
    /\ applied = 0
    /\ wrote = FALSE
    /\ scratch = 0
    /\ log = <<>>
    /\ events = <<>>
    /\ outcome = "none"
    /\ file_error = FALSE
    /\ nv_input = 0
    /\ cu_in \in CuInputs
    /\ cu_out = NoCall
    /\ cwd = "home"
    /\ cwd_before = "home"
    /\ runs = 0
    /\ truncated = FALSE

\* check_update(package_name, branch, base_url), updater.py 62-123
CheckUpdateCall ==
    /\ pc = "check_update_call"
    /\ ~cu_out.called
    /\ LET r == check_update(Probe(cu_in), cu_in.get_ok, cu_in.nv_ok, cu_in.out)
       IN  /\ cu_out' = [called |-> TRUE, result |-> r.result,
                         downloaded |-> r.downloaded, ran |-> r.ran]
           /\ scratch' = IF r.downloaded THEN cu_in.pkg ELSE scratch
           /\ nv_input' = IF r.ran THEN scratch' ELSE 0
    /\ UNCHANGED <<mode, log_file, idx, pc, current_version, upstream_version,
                   spec_exists, spec_contents, orig_contents, new_version,
                   applied, wrote, log, events, outcome, file_error, cu_in,
                   dirVars, runVars>>

CheckUpdateNext == CheckUpdateCall

CheckUpdateSpec == CheckUpdateInit /\ [][CheckUpdateNext]_vars

\* ------------------------------------------------------------------ C11
\* The version of the first record that parses, names package p and has a
\* "version" key; None when there is none.
RECURSIVE FirstVersionNamed(_, _, _)
FirstVersionNamed(out, p, i) ==
    IF i > Len(out) THEN None
    ELSE IF out[i] # Garbage /\ out[i].name = p /\ out[i].version # NoKey
         THEN out[i].version
         ELSE FirstVersionNamed(out, p, i + 1)

\* C11: check_update returns the version of the first record of nvchecker's
\* output that matches the requested package name; the version of a record
\* with another name is never returned, and None is returned when no record
\* matches the name or no line parses.
C11_ReturnsVersionOfNamedRecord ==
    (cu_out.called /\ cu_out.result # Raise /\ cu_out.ran) =>
      cu_out.result = FirstVersionNamed(cu_in.out, cu_in.pkg, 1)

NoConfigFound ==
    /\ EventsOf("check_update") # <<>>
    /\ EventsOf("check_update")[1].arg = None
    /\ EventsOf("download") = <<>>

C14_ComparisonErrorIsDistinctOutcome ==
    (/\ Returned
     /\ EventsOf("compare") # <<>>
     /\ EventsOf("compare")[1].arg = "Error") =>
      /\ outcome # "up_to_date"
      /\ \A i \in 1..Len(LinesOf(idx)) : LinesOf(idx)[i].kind # "up_to_date"

\* ------------------------------------------------------------------ C17
\* C17: whatever fails for whichever package, with or without a log file,
\* main runs to its normal end: no error leaves handle_update uncaught,
\* neither to the interpreter nor to the loop that called it.
C17_MainRunsToNormalEnd ==
    /\ pc # "crashed"
    /\ ~file_error

\* ------------------------------------------------------------------ C18
PublishingStages == <<"put", "commit", "push", "build">>

PublishingNo(op) ==
    CHOOSE n \in 1..Len(PublishingStages) : PublishingStages[n] = op

IsPublishing(op) == \E n \in 1..Len(PublishingStages) : PublishingStages[n] = op

\* C18: abf put, git commit, git push and abf build run only after abf mock
\* succeeded for the same package, and in that order; when abf mock fails
\* none of them runs and the error reaches handle_update's except clause.
C18_PublishingGatedOnMock ==
    /\ \A i \in 1..Len(events) :
         IsPublishing(events[i].op) =>
           /\ \E j \in 1..(i - 1) : events[j].op = "mock" /\ events[j].ok
           /\ \A j \in 1..(i - 1) :
                IsPublishing(events[j].op) =>
                  PublishingNo(events[j].op) < PublishingNo(events[i].op)
    /\ IsPublishing(pc) => \E j \in 1..Len(events) :
                             events[j].op = "mock" /\ events[j].ok
    /\ \A i \in 1..Len(events) :
         (events[i].op = "mock" /\ ~events[i].ok) =>
           /\ i = Len(events)
           /\ pc = "except" \/ Returned
           /\ Returned => outcome \in {"failed", "raised"}

\* abf mock -v has just failed: nothing was published and the error is on
\* its way to the except clause.
C18_Witness ==
    /\ events # <<>>
    /\ events[Len(events)].op = "mock"
    /\ ~events[Len(events)].ok
    /\ pc = "except"

\* ------------------------------------------------------------------ C19
\* C19: nvchecker reads the scratch file only when it holds what the same
\* check_update call downloaded for the package at hand; when the probe or
\* the download fails nvchecker does not run, whatever an earlier package
\* left in the scratch file.
C19_ScratchReadOnlyWhenFresh ==
    /\ nv_input \in {0, idx}
    /\ nv_input # 0 =>
         /\ EventsOf("download") # <<>>
         /\ scratch = idx
    /\ (EventsOf("check_update") # <<>> /\ EventsOf("download") = <<>>) =>
         nv_input = 0

\* The second package's probe found nothing while the scratch file still
\* holds the first package's configuration: nvchecker did not run.
C19_Witness ==
    /\ idx = 2
    /\ scratch = 1
    /\ EventsOf("check_update") # <<>>
    /\ EventsOf("download") = <<>>
    /\ nv_input = 0

\* ---------------------------------------------------------- autoadd_toml
\* Runs of the scripts on one log file.
MaxRuns == 2

\* Variables of updater.py that autoadd_toml.py has no part in.
autoFrame == <<current_version, upstream_version, spec_exists, spec_contents,
               orig_contents, new_version, applied, wrote, scratch, nv_input,
               cu_in, cu_out>>

AutoLine(p, kind) == [pkg |-> p, kind |-> kind, from |-> NoArg, to |-> NoArg]

\* logging.info / warning / error through the FileHandler: the records are
\* written at the end of the log file, in order.
logging_overwriting(p, kinds) ==
    [i \in 1..Len(kinds) |-> AutoLine(p, kinds[i])]
logging(p, kinds) ==
    log \o [i \in 1..Len(kinds) |-> AutoLine(p, kinds[i])]

\* autoadd_toml.py 84-104: what process_package does after each step.
ProcessPackageNextIgnoringRosa(step, ok) ==
    CASE step = "probe_rosa" -> "probe_arch"
      [] step = "probe_arch" -> IF ok THEN "download" ELSE "auto_main"
      [] step = "download" -> IF ok THEN "nvchecker" ELSE "auto_main"
      [] step = "nvchecker" -> IF ok THEN "git_rmtree" ELSE "auto_main"
ProcessPackageNext(step, ok) ==
    CASE step = "probe_rosa" -> IF ok THEN "auto_main" ELSE "probe_arch"
      [] step = "probe_arch" -> IF ok THEN "download" ELSE "auto_main"
      [] step = "download" -> IF ok THEN "nvchecker" ELSE "auto_main"
      [] step = "nvchecker" -> IF ok THEN "git_rmtree" ELSE "auto_main"

\* autoadd_toml.py 68-73: the statement order of git_operations after chdir.
GitNext(stage) ==
    CASE stage = "add" -> "commit"
      [] stage = "commit" -> "push"
      [] stage = "push" -> "git_finally"

\* Packages of one run: --package names one, --file lists MaxPkgs.
Packages == IF mode = "package" THEN 1 ELSE MaxPkgs

\* No script is running; the log file does not exist yet.
AutoInit ==
    /\ mode = "package"
    /\ log_file = TRUE
    /\ idx = 0
    /\ pc = "shell"
    /\ current_version = UNBOUND
    /\ upstream_version = UNBOUND
    /\ spec_exists = FALSE
    /\ spec_contents = <<>>
    /\ orig_contents = <<>>
    /\ new_version = UNBOUND
    /\ applied = 0
    /\ wrote = FALSE
    /\ scratch = 0
    /\ log = <<>>
    /\ events = <<>>
    /\ outcome = "none"
    /\ file_error = FALSE
    /\ nv_input = 0
    /\ cu_in = NoCall
    /\ cu_out = NoCall
    /\ cwd = "start"
    /\ cwd_before = "start"
    /\ runs = 0
    /\ truncated = FALSE

\* A run of updater.py --log on the same file that records one package
\* outcome (updater.py 11-23, called at 225, 241, 243, 247).
UpdaterRun ==
    /\ pc \in {"shell", "auto_crashed"}
    /\ runs < MaxRuns
    /\ runs' = runs + 1
    /\ truncated' = FALSE
    /\ pc' = "shell"
    /\ \E kind \in {"upgraded", "up_to_date"} :
         log' = log_message(LogLine(kind, NoArg, NoArg))
    /\ UNCHANGED <<mode, log_file, idx, events, outcome, file_error, dirVars,
                   autoFrame>>

\* autoadd_toml.py is started, from the home directory or from another one,
\* with --package or --file; the list file may be missing.
AutoStart ==
    /\ pc \in {"shell", "auto_crashed"}
    /\ runs < MaxRuns
    /\ runs' = runs + 1
    /\ truncated' = FALSE
    /\ mode' \in {"package", "file"}
    /\ file_error' \in (IF mode' = "file" THEN BOOLEAN ELSE {FALSE})
    /\ cwd' \in {"start", "home"}
    /\ cwd_before' = cwd'
    /\ idx' = 0
    /\ events' = <<>>
    /\ outcome' = "none"
    /\ pc' = "setup_logging"
    /\ UNCHANGED <<log_file, log, autoFrame>>

\* autoadd_toml.py 8-17, 114: FileHandler(log_file, mode='w') opens the log
\* file for writing, which empties it.
SetupLogging ==
    /\ pc = "setup_logging"
    /\ log' = <<>>
    /\ truncated' = (log # <<>>)
    /\ pc' = "auto_main"
    /\ UNCHANGED <<mode, log_file, idx, events, outcome, file_error, dirVars,
                   runs, autoFrame>>

\* autoadd_toml.py 122-127
AutoFileNotFound ==
    /\ pc = "auto_main"
    /\ file_error
    /\ log' = logging(0, <<"file_not_found">>)
    /\ pc' = "shell"
    /\ UNCHANGED <<mode, log_file, idx, events, outcome, file_error, dirVars,
                   runVars, autoFrame>>

\* autoadd_toml.py 119-120, 129-131
AutoBegin ==
    /\ pc = "auto_main"
    /\ ~file_error
    /\ idx < Packages
    /\ idx' = idx + 1
    /\ log' = logging(idx', <<"processing">>)
    /\ events' = <<>>
    /\ outcome' = "running"
    /\ pc' = "probe_rosa"
    /\ UNCHANGED <<mode, log_file, file_error, dirVars, runVars, autoFrame>>

\* main returns after the last package.
AutoFinish ==
    /\ pc = "auto_main"
    /\ ~file_error
    /\ idx = Packages
    /\ pc' = "shell"
    /\ UNCHANGED <<mode, log_file, idx, log, events, outcome, file_error,
                   dirVars, runVars, autoFrame>>

\* check_file_exists, autoadd_toml.py 19-26: True on status 200, False on
\* any other status and, after logging it, on a RequestException.
ProbeLines(status) == IF status = Raise THEN <<"probe_error">> ELSE <<>>

\* autoadd_toml.py 84-88
ProbeRosa ==
    /\ pc = "probe_rosa"
    /\ \E status \in {"200", "404", Raise} :
         LET exists == status = "200"
         IN  /\ events' = Append(events, Event("probe_rosa", exists, NoArg))
             /\ log' = logging(idx, ProbeLines(status) \o
                         (IF exists THEN <<"exists">> ELSE <<"absent_rosa">>))
             /\ outcome' = IF exists THEN "exists" ELSE outcome
             /\ pc' = ProcessPackageNext("probe_rosa", exists)
    /\ UNCHANGED <<mode, log_file, idx, file_error, dirVars, runVars,
                   autoFrame>>

\* autoadd_toml.py 90-92
ProbeArch ==
    /\ pc = "probe_arch"
    /\ \E status \in {"200", "404", Raise} :
         LET exists == status = "200"
         IN  /\ events' = Append(events, Event("probe_arch", exists, NoArg))
             /\ log' = logging(idx, ProbeLines(status) \o
                         (IF exists THEN <<>> ELSE <<"absent_arch">>))
             /\ outcome' = IF exists THEN outcome ELSE "absent"
             /\ pc' = ProcessPackageNext("probe_arch", exists)
    /\ UNCHANGED <<mode, log_file, idx, file_error, dirVars, runVars,
                   autoFrame>>

\* autoadd_toml.py 94-97, download_file 28-39
Download ==
    /\ pc = "download"
    /\ \E ok \in BOOLEAN :
         /\ events' = Append(events, Event("download", ok, NoArg))
         /\ log' = logging(idx, IF ok THEN <<"downloaded">>
                                ELSE <<"download_error", "download_failed">>)
         /\ outcome' = IF ok THEN outcome ELSE "download_failed"
         /\ pc' = ProcessPackageNext("download", ok)
    /\ UNCHANGED <<mode, log_file, idx, file_error, dirVars, runVars,
                   autoFrame>>

\* autoadd_toml.py 99-104, run_nvchecker 41-48.  A non-zero exit is caught
\* and logged; an nvchecker that cannot be started raises OSError, which
\* nothing catches.  On success git_operations is entered.
RunNvchecker ==
    /\ pc = "nvchecker"
    /\ \E r \in {"ok", "failed", Raise} :
         /\ events' = Append(events, Event("nvchecker", r = "ok", NoArg))
         /\ log' = logging(idx, IF r = "failed"
                                THEN <<"nvchecker_error", "nvchecker_failed">>
                                ELSE <<>>)
         /\ outcome' = IF r = "ok" THEN outcome ELSE "nvchecker_failed"
         /\ pc' = IF r = Raise THEN "auto_crashed"
                  ELSE ProcessPackageNext("nvchecker", r = "ok")
         /\ cwd_before' = IF r = "ok" THEN cwd ELSE cwd_before
    /\ UNCHANGED <<mode, log_file, idx, file_error, cwd, runVars, autoFrame>>

\* autoadd_toml.py 56-58: an earlier checkout is deleted; shutil.rmtree may
\* raise OSError, which the except clause at 74 does not catch.
GitRmtree ==
    /\ pc = "git_rmtree"
    /\ \E exists \in BOOLEAN, ok \in BOOLEAN :
         IF exists
         THEN /\ events' = Append(events, Event("rmtree", ok, NoArg))
              /\ log' = logging(idx, <<"rmtree">>)
              /\ outcome' = IF ok THEN outcome ELSE "raising"
              /\ pc' = IF ok THEN "git_clone" ELSE "git_finally"
         ELSE /\ ok
              /\ pc' = "git_clone"
              /\ UNCHANGED <<events, log, outcome>>
    /\ UNCHANGED <<mode, log_file, idx, file_error, dirVars, runVars,
                   autoFrame>>

\* autoadd_toml.py 60-61; CalledProcessError is logged at 74-75.
GitClone ==
    /\ pc = "git_clone"
    /\ \E ok \in BOOLEAN :
         /\ events' = Append(events, Event("clone", ok, NoArg))
         /\ log' = logging(idx, IF ok THEN <<"cloned">> ELSE <<"git_error">>)
         /\ outcome' = IF ok THEN outcome ELSE "git_failed"
         /\ pc' = IF ok THEN "git_move" ELSE "git_finally"
    /\ UNCHANGED <<mode, log_file, idx, file_error, dirVars, runVars,
                   autoFrame>>

\* autoadd_toml.py 63-65: shutil.move may raise OSError / shutil.Error,
\* which the except clause at 74 does not catch.
GitMove ==
    /\ pc = "git_move"
    /\ \E ok \in BOOLEAN :
         /\ events' = Append(events, Event("move", ok, NoArg))
         /\ log' = logging(idx, IF ok THEN <<"moved">> ELSE <<>>)
         /\ outcome' = IF ok THEN outcome ELSE "raising"
         /\ pc' = IF ok THEN "git_chdir" ELSE "git_finally"
    /\ UNCHANGED <<mode, log_file, idx, file_error, dirVars, runVars,
                   autoFrame>>

\* autoadd_toml.py 67
GitChdir ==
    /\ pc = "git_chdir"
    /\ cwd' = "repo"
    /\ events' = Append(events, Event("chdir", TRUE, NoArg))
    /\ pc' = "add"
    /\ UNCHANGED <<mode, log_file, idx, log, outcome, file_error, cwd_before,
                   runVars, autoFrame>>

\* One git command of autoadd_toml.py 68-73, run with check=True.
GitStage(stage, done) ==
    /\ pc = stage
    /\ \E ok \in BOOLEAN :
         /\ events' = Append(events, Event(stage, ok, NoArg))
         /\ log' = logging(idx, IF ok THEN <<done>> ELSE <<"git_error">>)
         /\ outcome' = IF ok THEN outcome ELSE "git_failed"
         /\ pc' = IF ok THEN GitNext(stage) ELSE "git_finally"
    /\ UNCHANGED <<mode, log_file, idx, file_error, dirVars, runVars,
                   autoFrame>>

\* autoadd_toml.py 68-69
GitAdd == GitStage("add", "added")
\* autoadd_toml.py 70-71
GitCommitToml == GitStage("commit", "committed")
\* autoadd_toml.py 72-73
GitPushToml == GitStage("push", "pushed")

\* autoadd_toml.py 76-77: os.chdir(home_dir) on every way out; then
\* git_operations returns, or the uncaught error goes on through
\* process_package and main.
GitFinally ==
    /\ pc = "git_finally"
    /\ cwd' = "home"
    /\ outcome' = IF outcome = "raising" THEN "git_raised"
                  ELSE IF outcome = "git_failed" THEN "git_failed_returned"
                  ELSE "git_returned"
    /\ pc' = IF outcome = "raising" THEN "auto_crashed" ELSE "auto_main"
    /\ UNCHANGED <<mode, log_file, idx, log, events, file_error, cwd_before,
                   runVars, autoFrame>>

AutoNext ==
    \/ UpdaterRun
    \/ AutoStart
    \/ SetupLogging
    \/ AutoFileNotFound
    \/ AutoBegin
    \/ AutoFinish
    \/ ProbeRosa
    \/ ProbeArch
    \/ Download
    \/ RunNvchecker
    \/ GitRmtree
    \/ GitClone
    \/ GitMove
    \/ GitChdir
    \/ GitAdd
    \/ GitCommitToml
    \/ GitPushToml
    \/ GitFinally

AutoSpec == AutoInit /\ [][AutoNext]_vars

\* ------------------------------------------------------------------ C15
\* git_operations has been left, by return or by an uncaught error.
GitOperationsLeft ==
    outcome \in {"git_returned", "git_failed_returned", "git_raised"}

\* C15: after git_operations returns or raises, on every way out, the
\* current working directory is the one that was current when
\* git_operations was called.
C15_CwdRestoredAfterGitOperations ==
    GitOperationsLeft => cwd = cwd_before

\* ------------------------------------------------------------------ C16
IsPrefix(a, b) == Len(a) <= Len(b) /\ SubSeq(b, 1, Len(a)) = a

\* C16 as stated: the log is append-only: whatever the scripts do, the log
\* before a step is a prefix of the log after it.
C16_LogAppendOnly == [][IsPrefix(log, log')]_vars

\* C16 as amended: updater.py only appends to the log and autoadd_toml.py
\* only appends to it while it runs, but setup_logging, at the start of
\* every run of autoadd_toml.py, empties the log file.
C16_AppendOnlyAfterSetupLogging ==
    [][IF pc = "setup_logging"
       THEN log' = <<>>
       ELSE IsPrefix(log, log')]_vars

\* A run of autoadd_toml.py emptied a log that held lines of an earlier run
\* and has written lines of its own since.
C16_Witness ==
    /\ truncated
    /\ log # <<>>
    /\ pc \notin {"shell", "setup_logging"}

\* ------------------------------------------------------------------ C20
GitOps == {"rmtree", "clone", "move", "chdir", "add", "commit", "push"}

GitPcs == {"git_rmtree", "git_clone", "git_move", "git_chdir", "add",
           "commit", "push", "git_finally"}

\* The four checks of process_package passed, in order.
ChecksPassed ==
    /\ Len(events) >= 4
    /\ events[1].op = "probe_rosa" /\ ~events[1].ok
    /\ events[2].op = "probe_arch" /\ events[2].ok
    /\ events[3].op = "download" /\ events[3].ok
    /\ events[4].op = "nvchecker" /\ events[4].ok

\* C20: process_package deletes a checkout, clones, moves the file, adds,
\* commits or pushes only after, in this order, the configuration was
\* absent on the ROSA mirror, present on the Arch mirror, downloaded and
\* accepted by nvchecker; when the ROSA mirror has the configuration
\* nothing is downloaded and no repository is touched.
C20_GitOnlyAfterFourChecks ==
    /\ \A i \in 1..Len(events) :
         events[i].op \in GitOps => (ChecksPassed /\ i > 4)
    /\ pc \in GitPcs => ChecksPassed
    /\ (events # <<>> /\ events[1].op = "probe_rosa" /\ events[1].ok) =>
         /\ Len(events) = 1
         /\ pc \in {"auto_main", "shell"}

\* The new configuration has been pushed.
C20_Witness ==
    /\ events # <<>>
    /\ events[Len(events)].op = "push"
    /\ events[Len(events)].ok
    /\ ChecksPassed

\* ------------------------------------------------------------------ C21
\* The text holds a line the version-field pattern matches whose value is v.
HasVersionLine(s, v) ==
    \E j \in 1..Len(s) : MatchesAt(s, j) /\ s[Group2Start(s, j)] = v

\* git commit -am "autoupdate version to v" is about to run or has run.
AtCommit == pc = "commit" \/ EventsOf("commit") # <<>>

\* C21: whenever handle_update reaches git commit for upstream version v,
\* the spec file holds a version line with the value v; a spec file in which
\* no line matches the pattern does not let the workflow go on to spectool
\* and commit with its version unchanged.
C21_CommitImpliesVersionInSpec ==
    /\ AtCommit => HasVersionLine(spec_contents, upstream_version)
    /\ (applied = 1 /\ ~HasMatch(orig_contents)) =>
         /\ pc \notin {"spectool", "mock", "put", "commit", "push", "build",
                       "log_ok"}
         /\ EventsOf("spectool") = <<>>

====
